---- MODULE Spec2Model ----
(***************************************************************************)
(* State-machine model of the AI-Hub backend (KimAcross/AI-Hub).           *)
(*                                                                         *)
(* Part I  - ingestion pipeline: knowledge-file rows, the vector store,    *)
(*           background processing attempts and the ingestion reaper.      *)
(*                                                                         *)
(* Database rows are the COMMITTED rows.  Every processing attempt and     *)
(* every reaper cycle works on ORM objects loaded by a SELECT, changes     *)
(* them in memory, and its UPDATEs become visible to other sessions only   *)
(* on commit (PostgreSQL, READ COMMITTED).  An attempt that has flushed    *)
(* its first UPDATE holds the row lock until it commits or dies; a killed  *)
(* worker's transaction is rolled back.  The vector store is not           *)
(* transactional: its writes are immediately visible and survive a         *)
(* rollback.                                                               *)
(*                                                                         *)
(* Timestamps are kept relative to the clock, in units of TimeUnitMinutes: *)
(* processing_started_at as an age (saturating once it is older than the   *)
(* stale cutoff), next_retry_at as the time remaining (saturating at 0 =   *)
(* due).  The code only ever compares them with "now".                     *)
(***************************************************************************)
EXTENDS Integers, Sequences, FiniteSets, TLC

\* ------------------------------------------------------------------ bounds
MaxTasks == 2
MaxChunks == 1
AttemptCap == 4
MaxLimit == 2
MaxDeltas == 2
MaxTokens == 1
MaxCost == 1
MaxKeys == 3
MaxText == 5
MaxSize == 3
MaxBatch == 2

\* ------------------------------------------------------- program constants
TimeUnitMinutes == 5
MaxAttempts == 3
STUCK_THRESHOLD_MINUTES == 15
BACKOFF_BASE_MINUTES == 5
BACKOFF_MULTIPLIER == 3
backoff_minutes == <<5, 15, 45>>

FileIds == {1}
TaskIds == 1..MaxTasks
Null == -1
NoFile == [status |-> "absent"]
StaleUnits == STUCK_THRESHOLD_MINUTES \div TimeUnitMinutes
Cols == {"status", "attempt_count", "started", "retry", "last_error",
         "error_message", "chunk_count"}

VARIABLES files, disk, store, tasks, reaper, reproc,   \* ingestion
          convs, msgs, usage, quota, turn, resp,        \* conversations, chat
          qin, qout,                                    \* quota admission
          uquota,                                       \* user-scope quota rows
          peer,                                         \* a second process's reaper
          keys, kreq,                                   \* provider keys, key requests
          ck,                                           \* a chunk_text call
          batch                                         \* files retried together

ingestVars == <<files, disk, store, tasks, reaper, reproc>>
chatVars == <<convs, msgs, usage, quota, turn, resp>>
quotaVars == <<qin, qout>>
keyVars == <<keys, kreq>>
utilVars == <<ck, batch>>
adminVars == <<uquota, peer, keyVars, utilVars>>
vars == <<ingestVars, chatVars, quotaVars, adminVars>>
nonIngest == <<chatVars, quotaVars, adminVars>>
nonChat == <<ingestVars, quotaVars, adminVars>>
nonQuota == <<ingestVars, chatVars, adminVars>>
nonKeys == <<ingestVars, chatVars, quotaVars, uquota, peer, utilVars>>
nonUtil == <<ingestVars, chatVars, quotaVars, uquota, peer, keyVars>>

Min(a, b) == IF a < b THEN a ELSE b

RECURSIVE Pow(_, _)
Pow(b, e) == IF e <= 0 THEN 1 ELSE b * Pow(b, e - 1)

\* An ORM object with the set of columns its session has written.
Sess(o, d) == [obj |-> o, dirty |-> d]

\* Assign a column of a session object; timestamps are always written with
\* a fresh value, other columns only enter the UPDATE if the value changes.
SetCol(s, c, v) ==
    [obj |-> [s.obj EXCEPT ![c] = v],
     dirty |-> IF s.obj[c] /= v \/ (c \in {"started", "retry"} /\ v /= Null)
               THEN s.dirty \cup {c} ELSE s.dirty]

\* Commit: the written columns replace the committed row's.
Overlay(row, s) == [c \in Cols |-> IF c \in s.dirty THEN s.obj[c] ELSE row[c]]

\* KnowledgeFile(...) in create_file_record
NewFile ==
    [status |-> "processing", attempt_count |-> 0, started |-> 0,
     retry |-> Null, last_error |-> "null", error_message |-> "null",
     chunk_count |-> 0]

\* What a session that only has its flush and commit left still needs of its
\* object: the columns it writes.
Pending(s) ==
    [obj |-> [c \in Cols |-> IF c \in s.dirty THEN s.obj[c] ELSE NewFile[c]],
     dirty |-> s.dirty]

\* FileProcessorService._register_attempt
RegisterAttempt(s) ==
    SetCol(SetCol(SetCol(SetCol(SetCol(s,
        "attempt_count", s.obj.attempt_count + 1),
        "started", 0),
        "retry", Null),
        "last_error", "null"),
        "status", "processing")

\* FileProcessorService.update_file_status
UpdateFileStatus(s, st, cc, em) ==
    LET s1 == SetCol(s, "status", st)
        s2 == IF cc /= Null THEN SetCol(s1, "chunk_count", cc) ELSE s1
    IN  IF em /= "null" THEN SetCol(s2, "error_message", em) ELSE s2

MarkRetryOrFailedFlat(s, err) ==
    IF s.obj.attempt_count >= MaxAttempts
    THEN SetCol(SetCol(SetCol(s, "status", "failed"),
                "error_message", err), "last_error", err)
    ELSE SetCol(SetCol(SetCol(SetCol(s, "status", "pending"),
                "error_message", err), "last_error", err),
                "retry", backoff_minutes[1] \div TimeUnitMinutes)

\* FileProcessorService._mark_retry_or_failed
MarkRetryOrFailed(s, err) ==
    IF s.obj.attempt_count >= MaxAttempts
    THEN SetCol(SetCol(SetCol(s, "status", "failed"),
                "error_message", err), "last_error", err)
    ELSE LET delay_idx == Min(s.obj.attempt_count - 1, Len(backoff_minutes) - 1)
         IN  SetCol(SetCol(SetCol(SetCol(s, "status", "pending"),
                "error_message", err), "last_error", err),
                "retry", backoff_minutes[delay_idx + 1] \div TimeUnitMinutes)

IdleTask == [pc |-> "idle", fid |-> 0, s |-> Sess(NoFile, {})]

FreeTasks(ts) == {t \in TaskIds : ts[t].pc = "idle"}
FirstFree(ts) == CHOOSE t \in FreeTasks(ts) : \A u \in FreeTasks(ts) : t <= u

\* A processing attempt that has flushed its first UPDATE holds the row lock.
Locked(f) == \E t \in TaskIds : tasks[t].fid = f
                 /\ tasks[t].pc \in {"embedding", "committing"}

ChunkIds(f, n) == {<<f, i>> : i \in 0..(n - 1)}
FileChunks(f) == {e \in store : e[1] = f}

IdleReaper == [pc |-> "idle", w |-> [f \in FileIds |-> Sess(NoFile, {})]]
NoReq == [fid |-> 0, s |-> Sess(NoFile, {})]

InitIngest ==
    /\ files = [f \in FileIds |-> NoFile]
    /\ disk = [f \in FileIds |-> 0]
    /\ store = {}
    /\ tasks = [t \in TaskIds |-> IdleTask]
    /\ reaper = IdleReaper
    /\ reproc = NoReq

\* POST /assistants/{id}/files: the record is created and the background
\* task is queued; n is the number of chunks the file's text yields.
Upload(f, n) ==
    /\ files[f] = NoFile
    /\ FreeTasks(tasks) /= {}
    /\ files' = [files EXCEPT ![f] = NewFile]
    /\ disk' = [disk EXCEPT ![f] = n]
    /\ tasks' = [tasks EXCEPT ![FirstFree(tasks)] =
                    [pc |-> "queued", fid |-> f, s |-> Sess(NoFile, {})]]
    /\ UNCHANGED <<store, reaper, reproc, nonIngest>>

\* process_file lines 239-267: the row is SELECTed, _register_attempt and the
\* status "indexing" are flushed (the first flush takes the row lock, so the
\* attempt starts once no other attempt holds it), then extract_text and
\* chunk_text run.
TaskBegin(t, extract_ok) ==
    LET f == tasks[t].fid
        s2 == UpdateFileStatus(RegisterAttempt(Sess(files[f], {})),
                               "indexing", Null, "null")
    IN  /\ tasks[t].pc = "queued"
        /\ ~Locked(f)
        /\ files[f].attempt_count < AttemptCap
        /\ IF extract_ok /\ disk[f] > 0
           THEN tasks' = [tasks EXCEPT ![t].pc = "embedding", ![t].s = s2]
           ELSE tasks' = [tasks EXCEPT ![t].pc = "committing",
                                       ![t].s = MarkRetryOrFailed(s2, "err")]
        /\ UNCHANGED <<files, disk, store, reaper, reproc, nonIngest>>

\* process_file called while another attempt holds the row lock: the SELECT
\* returns the committed row, _register_attempt changes the object in memory
\* and its flush waits for the lock.
TaskBlocked(t) ==
    LET f == tasks[t].fid
    IN  /\ tasks[t].pc = "queued"
        /\ Locked(f)
        /\ files[f].attempt_count < AttemptCap
        /\ tasks' = [tasks EXCEPT ![t].pc = "blocked",
                                  ![t].s = RegisterAttempt(Sess(files[f], {}))]
        /\ UNCHANGED <<files, disk, store, reaper, reproc, nonIngest>>

\* the lock is released: the waiting flush goes through with the object as
\* it was loaded, and process_file goes on as in TaskBegin
TaskResume(t, extract_ok) ==
    LET f == tasks[t].fid
        s2 == UpdateFileStatus(tasks[t].s, "indexing", Null, "null")
    IN  /\ tasks[t].pc = "blocked"
        /\ ~Locked(f)
        /\ IF extract_ok /\ disk[f] > 0
           THEN tasks' = [tasks EXCEPT ![t].pc = "embedding", ![t].s = s2]
           ELSE tasks' = [tasks EXCEPT ![t].pc = "committing",
                                       ![t].s = MarkRetryOrFailed(s2, "err")]
        /\ UNCHANGED <<files, disk, store, reaper, reproc, nonIngest>>

\* process_file lines 291-295: status ready, chunk_count, retry fields cleared
MarkReady(s, n) ==
    SetCol(SetCol(UpdateFileStatus(s, "ready", n, "null"),
        "retry", Null), "last_error", "null")

\* ChromaService.add_chunks: m embeddings for n chunks of file f.  dup says
\* what collection.add does with ids that are already stored.
AddChunksRaises(f, n, m, dup) ==
    \/ (m > 0 /\ m /= n)
    \/ (m = n /\ ChunkIds(f, n) \cap store /= {} /\ dup = "raise")

AddChunks(st, f, n, m) ==
    IF m = 0 THEN st ELSE st \cup ChunkIds(f, n)

\* process_file lines 269-295: embed_texts returns m vectors (m = Null: it
\* raises), add_chunks, then the row is marked ready.
TaskEmbed(t, m, dup) ==
    LET f == tasks[t].fid
        n == disk[f]
    IN  /\ tasks[t].pc = "embedding"
        /\ IF m = Null \/ AddChunksRaises(f, n, m, dup)
           THEN /\ tasks' = [tasks EXCEPT ![t].pc = "committing",
                                 ![t].s = MarkRetryOrFailed(tasks[t].s, "err")]
                /\ store' = store
           ELSE /\ tasks' = [tasks EXCEPT ![t].pc = "committing",
                                 ![t].s = MarkReady(tasks[t].s, n)]
                /\ store' = AddChunks(store, f, n, m)
        /\ UNCHANGED <<files, disk, reaper, reproc, nonIngest>>

\* process_file_background / IngestionReaper._process_file: session commit
TaskCommit(t) ==
    /\ tasks[t].pc = "committing"
    /\ files' = [files EXCEPT ![tasks[t].fid] = Overlay(@, tasks[t].s)]
    /\ tasks' = [tasks EXCEPT ![t] = IdleTask]
    /\ UNCHANGED <<disk, store, reaper, reproc, nonIngest>>

\* The worker dies: its transaction is rolled back, the vector store keeps
\* what was written.
Crash(t) ==
    /\ tasks[t].pc /= "idle"
    /\ tasks' = [tasks EXCEPT ![t] = IdleTask]
    /\ UNCHANGED <<files, disk, store, reaper, reproc, nonIngest>>

IsStuckIndexingOnly(r) ==
    /\ r /= NoFile
    /\ r.status = "indexing"
    /\ r.started /= Null
    /\ r.started > StaleUnits

\* IngestionReaper._reap_stuck_files: the WHERE clause
IsStuck(r) ==
    /\ r /= NoFile
    /\ r.status = "processing"
    /\ r.started /= Null
    /\ r.started > StaleUnits

ReapFileCountOnly(s) == SetCol(s, "attempt_count", s.obj.attempt_count + 1)

\* IngestionReaper._reap_stuck_files: the loop body
ReapFile(s) ==
    LET s1 == SetCol(s, "attempt_count", s.obj.attempt_count + 1)
    IN  IF s1.obj.attempt_count >= MaxAttempts
        THEN SetCol(SetCol(SetCol(s1, "status", "failed"),
                "last_error",
                IF s1.obj.last_error /= "null" THEN s1.obj.last_error ELSE "timeout"),
                "retry", Null)
        ELSE SetCol(SetCol(SetCol(s1,
                "retry", (BACKOFF_BASE_MINUTES
                          * Pow(BACKOFF_MULTIPLIER, s1.obj.attempt_count - 1))
                         \div TimeUnitMinutes),
                "status", "pending"),
                "started", Null)

\* IngestionReaper._retry_pending_files: the WHERE clause
IsDue(r) ==
    /\ r /= NoFile
    /\ r.status = "pending"
    /\ r.retry /= Null
    /\ r.retry <= 0
    /\ r.attempt_count < MaxAttempts

\* IngestionReaper._retry_pending_files: the loop body (without create_task)
DispatchFile(s) ==
    SetCol(SetCol(SetCol(s, "status", "processing"), "started", 0), "retry", Null)

RECURSIVE SpawnAll(_, _)
SpawnAll(ts, S) ==
    IF S = {} THEN ts
    ELSE LET f == CHOOSE x \in S : \A y \in S : x <= y
         IN  SpawnAll([ts EXCEPT ![FirstFree(ts)] =
                          [pc |-> "queued", fid |-> f, s |-> Sess(NoFile, {})]],
                      S \ {f})

\* One reaper cycle up to its commit: both SELECTs, the in-memory changes and
\* the asyncio tasks created for the due files.  A cycle that selects no row
\* changes nothing and is left out.
ReaperRead ==
    LET stuck == {f \in FileIds : IsStuck(files[f])}
        due == {f \in FileIds : IsDue(files[f])}
    IN  /\ reaper.pc = "idle"
        /\ stuck \cup due /= {}
        /\ Cardinality(due) <= Cardinality(FreeTasks(tasks))
        /\ reaper' = [pc |-> "committing",
                      w |-> [f \in FileIds |->
                               IF f \in stuck THEN Pending(ReapFile(Sess(files[f], {})))
                               ELSE IF f \in due
                                    THEN Pending(DispatchFile(Sess(files[f], {})))
                               ELSE Sess(NoFile, {})]]
        /\ tasks' = SpawnAll(tasks, due)
        /\ UNCHANGED <<files, disk, store, reproc, nonIngest>>

\* The reaper cycle's commit: its UPDATEs wait for the row locks.
ReaperCommit ==
    /\ reaper.pc = "committing"
    /\ \A f \in FileIds : reaper.w[f].dirty /= {} => ~Locked(f)
    /\ files' = [f \in FileIds |->
                   IF reaper.w[f].dirty /= {} THEN Overlay(files[f], reaper.w[f])
                   ELSE files[f]]
    /\ reaper' = IdleReaper
    /\ UNCHANGED <<disk, store, tasks, reproc, nonIngest>>

\* FileProcessorService.reprocess_file lines 451-454: the status reset
ResetForReprocess(s) ==
    SetCol(SetCol(SetCol(s, "status", "pending"), "retry", 0),
           "last_error", "manual")

\* POST .../reprocess, first part: the row is loaded, the file's chunks are
\* deleted from the vector store and the row object is reset in memory
\* (reprocess_file lines 437-454).
ReprocessDelete(f) ==
    /\ reproc = NoReq
    /\ files[f] /= NoFile
    /\ store' = store \ FileChunks(f)
    /\ reproc' = [fid |-> f, s |-> Pending(ResetForReprocess(Sess(files[f], {})))]
    /\ UNCHANGED <<files, disk, tasks, reaper, nonIngest>>

\* POST .../reprocess, second part: the reset is flushed (waiting for the row
\* lock), the request commits and the background task is queued.
ReprocessWrite ==
    LET f == reproc.fid
    IN  /\ reproc /= NoReq
        /\ ~Locked(f)
        /\ FreeTasks(tasks) /= {}
        /\ files' = [files EXCEPT ![f] = Overlay(@, reproc.s)]
        /\ tasks' = [tasks EXCEPT ![FirstFree(tasks)] =
                        [pc |-> "queued", fid |-> f, s |-> Sess(NoFile, {})]]
        /\ reproc' = NoReq
        /\ UNCHANGED <<disk, store, reaper, nonIngest>>

\* The clock advances by one time unit.  A reaper cycle and a reprocess
\* request last far less than a time unit, so the clock is taken to advance
\* between them; a processing attempt can span any number of units.
AgeRow(r) ==
    IF r = NoFile THEN r
    ELSE [r EXCEPT !.started = IF @ = Null THEN Null ELSE Min(@ + 1, StaleUnits + 1),
                   !.retry = IF @ = Null THEN Null ELSE IF @ > 0 THEN @ - 1 ELSE 0]

AgeSess(s) == [s EXCEPT !.obj = AgeRow(@)]

Tick ==
    /\ reaper.pc = "idle"
    /\ reproc = NoReq
    /\ \/ \E f \in FileIds : AgeRow(files[f]) /= files[f]
       \/ \E t \in TaskIds : AgeSess(tasks[t].s) /= tasks[t].s
    /\ files' = [f \in FileIds |-> AgeRow(files[f])]
    /\ tasks' = [t \in TaskIds |-> [tasks[t] EXCEPT !.s = AgeSess(@)]]
    /\ reaper' = reaper
    /\ UNCHANGED <<disk, store, reproc, nonIngest>>

\* The reaper of a second server process (lifespan starts one per process):
\* the same cycle on its own session, its asyncio tasks among the workers.
PeerRead ==
    LET stuck == {f \in FileIds : IsStuck(files[f])}
        due == {f \in FileIds : IsDue(files[f])}
    IN  /\ peer.pc = "idle"
        /\ stuck \cup due /= {}
        /\ Cardinality(due) <= Cardinality(FreeTasks(tasks))
        /\ peer' = [pc |-> "committing",
                    w |-> [f \in FileIds |->
                             IF f \in stuck THEN Pending(ReapFile(Sess(files[f], {})))
                             ELSE IF f \in due
                                  THEN Pending(DispatchFile(Sess(files[f], {})))
                             ELSE Sess(NoFile, {})]]
        /\ tasks' = SpawnAll(tasks, due)
        /\ UNCHANGED <<files, disk, store, reaper, reproc, chatVars, quotaVars, uquota,
                       keyVars, utilVars>>

PeerCommit ==
    /\ peer.pc = "committing"
    /\ \A f \in FileIds : peer.w[f].dirty /= {} => ~Locked(f)
    /\ files' = [f \in FileIds |->
                   IF peer.w[f].dirty /= {} THEN Overlay(files[f], peer.w[f])
                   ELSE files[f]]
    /\ peer' = IdleReaper
    /\ UNCHANGED <<disk, store, tasks, reaper, reproc, chatVars, quotaVars, uquota,
                   keyVars, utilVars>>

\* the clock, between the cycles of both reapers
PeerTick ==
    /\ peer.pc = "idle"
    /\ Tick

NextIngest ==
    \/ \E f \in FileIds, n \in 0..MaxChunks : Upload(f, n)
    \/ \E t \in TaskIds, ok \in BOOLEAN : TaskBegin(t, ok)
    \/ \E t \in TaskIds, m \in {Null} \cup 0..MaxChunks, dup \in {"raise", "ignore"} :
          TaskEmbed(t, m, dup)
    \/ \E t \in TaskIds : TaskCommit(t)
    \/ \E t \in TaskIds : Crash(t)
    \/ ReaperRead
    \/ ReaperCommit
    \/ \E f \in FileIds : ReprocessDelete(f)
    \/ ReprocessWrite
    \/ Tick

\* the attempts of the upload, of the reprocess request and of the reaper's
\* dispatch of the reprocessed file, with the attempts that find the row
\* locked; the clock stands still
FlightNext ==
    \/ \E f \in FileIds, n \in 0..MaxChunks : Upload(f, n)
    \/ \E t \in TaskIds, ok \in BOOLEAN : TaskBegin(t, ok)
    \/ \E t \in TaskIds : TaskBlocked(t)
    \/ \E t \in TaskIds, ok \in BOOLEAN : TaskResume(t, ok)
    \/ \E t \in TaskIds, m \in {Null} \cup 0..MaxChunks, dup \in {"raise", "ignore"} :
          TaskEmbed(t, m, dup)
    \/ \E t \in TaskIds : TaskCommit(t)
    \/ ReaperRead
    \/ ReaperCommit
    \/ \E f \in FileIds : ReprocessDelete(f)
    \/ ReprocessWrite

(***************************************************************************)
(* Part II - quota admission (QuotaService.check_quota) as a function of   *)
(* the quota rows and the usage sums.                                      *)
(***************************************************************************)
NoUser == "none"
Users == {"u1", "u2", "u3"}
\* users.role of the three accounts
RoleOf(u) == CASE u = "u1" -> "user" [] u = "u2" -> "manager" [] u = "u3" -> "admin"
NoQuota == [scope |-> "absent"]
QuotaRow(dc, mc, dt, mt) ==
    [scope |-> "set", daily_cost_limit_usd |-> dc, monthly_cost_limit_usd |-> mc,
     daily_token_limit |-> dt, monthly_token_limit |-> mt]
Limits == {Null} \cup 0..MaxLimit
\* daily sums never exceed the monthly sums: today lies in the current month
UsageSums ==
    {u \in [daily_tokens_used : 0..MaxLimit, daily_cost_used : 0..MaxLimit,
            monthly_tokens_used : 0..MaxLimit, monthly_cost_used : 0..MaxLimit] :
        /\ u.daily_tokens_used <= u.monthly_tokens_used
        /\ u.daily_cost_used <= u.monthly_cost_used}

\* Python truthiness of an Optional[Decimal] / Optional[int] limit
Truthy(x) == x /= Null /\ x /= 0

\* QuotaService.check_quota lines 240-245: the applicable quota row
ApplicableQuota(user_id, uq, gq) ==
    IF user_id /= NoUser /\ uq /= NoQuota THEN uq ELSE gq

\* QuotaService.check_quota lines 247-288
CheckQuota(user_id, uq, gq, u) ==
    LET q == ApplicableQuota(user_id, uq, gq)
    IN  IF q = NoQuota THEN [allowed |-> TRUE, reason |-> "none"]
        ELSE IF Truthy(q.daily_cost_limit_usd)
                /\ u.daily_cost_used >= q.daily_cost_limit_usd
        THEN [allowed |-> FALSE, reason |-> "Daily cost limit exceeded"]
        ELSE IF Truthy(q.monthly_cost_limit_usd)
                /\ u.monthly_cost_used >= q.monthly_cost_limit_usd
        THEN [allowed |-> FALSE, reason |-> "Monthly cost limit exceeded"]
        ELSE IF Truthy(q.daily_token_limit)
                /\ u.daily_tokens_used >= q.daily_token_limit
        THEN [allowed |-> FALSE, reason |-> "Daily token limit exceeded"]
        ELSE IF Truthy(q.monthly_token_limit)
                /\ u.monthly_tokens_used >= q.monthly_token_limit
        THEN [allowed |-> FALSE, reason |-> "Monthly token limit exceeded"]
        ELSE [allowed |-> TRUE, reason |-> "none"]

NoResult == [allowed |-> TRUE, reason |-> "unchecked"]

QuotaInputs ==
    [user_id : {NoUser, "u1"},
     uq : {NoQuota} \cup {QuotaRow(dc, Null, Null, Null) : dc \in Limits},
     gq : {NoQuota} \cup {QuotaRow(dc, mc, dt, mt) :
                            dc \in Limits, mc \in Limits, dt \in Limits, mt \in Limits},
     usage : UsageSums]

InitQuota ==
    /\ qin \in QuotaInputs
    /\ qout = NoResult

IdleQuota ==
    /\ qin = [user_id |-> NoUser, uq |-> NoQuota, gq |-> NoQuota,
              usage |-> [daily_tokens_used |-> 0, daily_cost_used |-> 0,
                         monthly_tokens_used |-> 0, monthly_cost_used |-> 0]]
    /\ qout = NoResult

\* one call of check_quota(user_id)
QuotaCheck ==
    /\ qout = NoResult
    /\ qout' = CheckQuota(qin.user_id, qin.uq, qin.gq, qin.usage)
    /\ UNCHANGED <<qin, nonQuota>>

(***************************************************************************)
(* Part III - authentication, conversations and the chat turn.             *)
(* A token is the payload the issuer signed; valid = signature and expiry  *)
(* verify.  Rows written by a chat turn are written in the request's       *)
(* session and are rolled back with it when a flush fails.                 *)
(***************************************************************************)
Roles == {"admin", "manager", "user"}
ConvIds == {1, 2}
\* the chat turns followed, and the two message ids each of them may take
TurnIds == {1, 2}
MsgIds == {2 * n - 1 : n \in TurnIds} \cup {2 * n : n \in TurnIds}
\* AdminAuthService.generate_token: sub = "admin"
AdminToken == [valid |-> TRUE, sub |-> "admin", role |-> "none"]
\* UserAuthService.generate_token: sub = str(user.id), role = user.role.value
UserToken(u, r) == [valid |-> TRUE, sub |-> u, role |-> r]
ForgedToken == [valid |-> FALSE, sub |-> "admin", role |-> "none"]
Tokens == {AdminToken, ForgedToken} \cup {UserToken(u, RoleOf(u)) : u \in Users}
NoPayload == [valid |-> FALSE, sub |-> "none", role |-> "none"]

\* AdminAuthService.verify_token: None unless the payload's sub is "admin"
AdminVerifyToken(tok) ==
    IF tok.valid /\ tok.sub = "admin" THEN tok ELSE NoPayload

\* deps.verify_user_token: 401 unless AdminAuthService accepts the token
VerifyUserToken(tok) ==
    LET payload == AdminVerifyToken(tok)
    IN  IF payload = NoPayload THEN [code |-> 401, payload |-> NoPayload]
        ELSE [code |-> 200,
              payload |-> IF payload.sub = "admin"
                          THEN [payload EXCEPT !.role = "admin"] ELSE payload]

\* deps.require_role
RequireRole(tok, required) ==
    LET v == VerifyUserToken(tok)
    IN  IF v.code /= 200 THEN v
        ELSE IF v.payload.sub = "admin" THEN v
        ELSE IF v.payload.role \notin Roles THEN [code |-> 403, payload |-> NoPayload]
        ELSE IF v.payload.role \notin required THEN [code |-> 403, payload |-> NoPayload]
        ELSE v

RequireAnyRole(tok) == RequireRole(tok, {"admin", "manager", "user"})
RequireAdminRole(tok) == RequireRole(tok, {"admin"})
RequireManagerRole(tok) == RequireRole(tok, {"admin", "manager"})

\* the X-CSRF-Token header: absent, the csrf value of the presented token's
\* payload, or another value
CsrfHeaders == {"none", "bound", "other"}

\* AdminAuthService.verify_csrf
AdminVerifyCsrf(tok, csrf) ==
    AdminVerifyToken(tok) /= NoPayload /\ csrf = "bound"

\* deps.verify_csrf_token: the status it lets the request pass (200) or
\* raises; every request of the model carries an X-Admin-Token header
VerifyCsrfToken(method, tok, csrf) ==
    IF method \in {"GET", "HEAD", "OPTIONS"} THEN 200
    ELSE IF csrf = "none" THEN 403
    ELSE IF ~AdminVerifyCsrf(tok, csrf) THEN 403
    ELSE 200

\* conversations._extract_user_context
ExtractUserContext(auth) ==
    IF auth.sub = "admin" THEN [user_id |-> NoUser, is_admin |-> TRUE]
    ELSE [user_id |-> auth.sub, is_admin |-> auth.role = "admin"]

NoConv == [user_id |-> "absent", title |-> "absent"]
NoTokens == [prompt_tokens |-> Null, completion_tokens |-> Null, total_tokens |-> Null]
NoMsg == [conv |-> 0, role |-> "absent", content |-> 0, tokens_used |-> NoTokens, turn |-> 0]

\* ConversationService.get_conversation: found, or ConversationNotFoundError
ConvAccess(cs, c, user_id, is_admin) ==
    IF cs[c] = NoConv THEN "not_found"
    ELSE IF user_id /= NoUser /\ ~is_admin /\ cs[c].user_id /= user_id THEN "not_found"
    ELSE "ok"

NoBody == "none"
\* the answer to the last request; a body is named by what it shows
Response(op, tok, c, code, body) ==
    [op |-> op, conv |-> c, code |-> code, body |-> body]
ConvBody(cs, ms, c) == "conversation"

\* the endpoint's prologue: require_any_role, _extract_user_context and the
\* ownership check, giving the status code the endpoint answers with
Gate(tok, c) ==
    LET a == RequireAnyRole(tok)
        ctx == ExtractUserContext(a.payload)
    IN  IF a.code /= 200 THEN a.code
        ELSE IF ConvAccess(convs, c, ctx.user_id, ctx.is_admin) = "not_found" THEN 404
        ELSE 200

Ev(type) == [type |-> type, quota_exceeded |-> FALSE, message_id |-> 0,
             tokens_used |-> NoTokens]
QuotaErr == [Ev("error") EXCEPT !.quota_exceeded = TRUE]

ZeroUsage == [daily_tokens_used |-> 0, daily_cost_used |-> 0,
              monthly_tokens_used |-> 0, monthly_cost_used |-> 0]

IdleTurn ==
    [pc |-> "idle", n |-> 0, conv |-> 0, qstate |-> "none", qres |-> NoResult,
     qusage |-> ZeroUsage, qquota |-> NoQuota, um |-> 0, am |-> 0, events |-> <<>>,
     full |-> 0, prompt_tokens |-> 0, completion_tokens |-> 0,
     tokens_used |-> NoTokens, logged_tokens |-> 0, logged_cost |-> 0,
     caller |-> NoUser, usage_seen |-> FALSE, log_rows |-> 0,
     s_error |-> FALSE, s_raised |-> FALSE]

NoResp == Response("none", NoPayload, 0, 0, NoBody)

InitChat ==
    /\ convs = [c \in ConvIds |-> NoConv]
    /\ msgs = [m \in MsgIds |-> NoMsg]
    /\ usage = ZeroUsage
    /\ quota = NoQuota
    /\ turn = IdleTurn
    /\ resp = NoResp

TurnQuiet == turn.pc \in {"idle", "closed", "cancelled"}

\* POST /conversations
CreateConversation(tok, c) ==
    /\ convs[c] = NoConv
    /\ LET a == RequireAnyRole(tok)
           ctx == ExtractUserContext(a.payload)
       IN  IF a.code /= 200
           THEN /\ resp' = Response("create", tok, c, a.code, NoBody)
                /\ UNCHANGED convs
           ELSE /\ convs' = [convs EXCEPT ![c] = [user_id |-> ctx.user_id,
                                                 title |-> "New Conversation"]]
                /\ resp' = Response("create", tok, c, 201, ConvBody(convs', msgs, c))
    /\ UNCHANGED <<msgs, usage, quota, turn, nonChat>>

\* GET /conversations/{id}
GetConversation(tok, c) ==
    /\ LET code == Gate(tok, c)
       IN  resp' = Response("get", tok, c, code,
                            IF code = 200 THEN ConvBody(convs, msgs, c) ELSE NoBody)
    /\ UNCHANGED <<convs, msgs, usage, quota, turn, nonChat>>

\* PATCH /conversations/{id}
UpdateConversation(tok, c) ==
    /\ LET code == Gate(tok, c)
       IN  IF code = 200
           THEN /\ convs' = [convs EXCEPT ![c].title = "renamed"]
                /\ resp' = Response("update", tok, c, 200, ConvBody(convs', msgs, c))
           ELSE /\ resp' = Response("update", tok, c, code, NoBody)
                /\ UNCHANGED convs
    /\ UNCHANGED <<msgs, usage, quota, turn, nonChat>>

\* DELETE /conversations/{id}; the messages go with the conversation.  A turn
\* that has inserted its messages holds the conversation row until it ends.
DeleteConversation(tok, c) ==
    /\ turn.conv = c => turn.pc \in {"idle", "load", "closed"}
    /\ LET code == Gate(tok, c)
       IN  IF code = 200
           THEN /\ convs' = [convs EXCEPT ![c] = NoConv]
                /\ msgs' = [m \in MsgIds |-> IF msgs[m].conv = c THEN NoMsg ELSE msgs[m]]
                /\ resp' = Response("delete", tok, c, 204, NoBody)
           ELSE /\ resp' = Response("delete", tok, c, code, NoBody)
                /\ UNCHANGED <<convs, msgs>>
    /\ UNCHANGED <<usage, quota, turn, nonChat>>

\* ConversationService.update_message: looked up by message id alone
UpdateMessage(ms, m, content) == [ms EXCEPT ![m].content = content]

\* PATCH /conversations/{id}/messages/{message_id}
EditMessage(tok, c, m, content) ==
    /\ TurnQuiet
    /\ LET code == Gate(tok, c)
       IN  IF code /= 200
           THEN /\ resp' = Response("edit", tok, c, code, NoBody)
                /\ UNCHANGED msgs
           ELSE IF msgs[m] = NoMsg
           THEN /\ resp' = Response("edit", tok, c, 404, NoBody)
                /\ UNCHANGED msgs
           ELSE /\ msgs' = UpdateMessage(msgs, m, content)
                /\ resp' = Response("edit", tok, c, 200, ConvBody(convs, msgs', c))
    /\ UNCHANGED <<convs, usage, quota, turn, nonChat>>

\* GET /conversations/{id}/export
ExportConversation(tok, c) ==
    /\ LET code == Gate(tok, c)
       IN  resp' = Response("export", tok, c, code,
                            IF code = 200 THEN ConvBody(convs, msgs, c) ELSE NoBody)
    /\ UNCHANGED <<convs, msgs, usage, quota, turn, nonChat>>

\* PATCH /admin/quotas/global setting the daily cost limit; an argument of
\* None leaves the column as it is
UpdateGlobalQuota(tok, dc) ==
    /\ TurnQuiet
    /\ LET a == RequireAdminRole(tok)
           old == IF quota = NoQuota THEN QuotaRow(Null, Null, Null, Null) ELSE quota
       IN  IF a.code /= 200
           THEN /\ resp' = Response("quota", tok, 0, a.code, NoBody)
                /\ UNCHANGED quota
           ELSE /\ quota' = [old EXCEPT
                               !.daily_cost_limit_usd = IF dc /= Null THEN dc ELSE @]
                /\ resp' = Response("quota", tok, 0, 200, NoBody)
    /\ UNCHANGED <<convs, msgs, usage, turn, nonChat>>

\* PATCH /admin/quotas/global as a request: require_admin_role, then
\* verify_csrf_token, then the handler
PatchGlobalQuota(tok, csrf, dc) ==
    LET a == RequireAdminRole(tok)
        v == VerifyCsrfToken("PATCH", tok, csrf)
    IN  IF a.code = 200 /\ v /= 200
        THEN /\ TurnQuiet
             /\ resp' = Response("quota", tok, 0, v, NoBody)
             /\ UNCHANGED <<convs, msgs, usage, quota, turn, nonChat>>
        ELSE UpdateGlobalQuota(tok, dc)

\* GET /admin/quotas/global (admin only): get_or_create_global_quota inserts
\* the global row when there is none
GetGlobalQuota(tok) ==
    /\ TurnQuiet
    /\ LET a == RequireAdminRole(tok)
       IN  /\ resp' = Response("get_quota", tok, 0, a.code, NoBody)
           /\ quota' = IF a.code = 200 /\ quota = NoQuota
                       THEN QuotaRow(Null, Null, Null, Null) ELSE quota
    /\ UNCHANGED <<convs, msgs, usage, turn, nonChat>>

\* GET /users (manager or above)
ListUsers(tok) ==
    /\ resp' = Response("list_users", tok, 0, RequireManagerRole(tok).code, NoBody)
    /\ UNCHANGED <<convs, msgs, usage, quota, turn, nonChat>>

\* GET /conversations (any role)
ListConversations(tok) ==
    /\ resp' = Response("list", tok, 0, RequireAnyRole(tok).code, NoBody)
    /\ UNCHANGED <<convs, msgs, usage, quota, turn, nonChat>>

\* POST /conversations/{id}/messages up to the StreamingResponse
SendMessage(tok, c) ==
    /\ TurnQuiet
    /\ turn.n + 1 \in TurnIds
    /\ LET code == Gate(tok, c)
       IN  /\ resp' = Response("send", tok, c, code, NoBody)
           /\ turn' = IF code = 200
                      THEN [IdleTurn EXCEPT !.pc = "load", !.n = turn.n + 1, !.conv = c,
                                            !.caller = ExtractUserContext(
                                                           RequireAnyRole(tok).payload).user_id]
                      ELSE turn
    /\ UNCHANGED <<convs, msgs, usage, quota, nonChat>>

\* ConversationService.add_message
AddMessage(ms, m, c, role, content, n) ==
    [ms EXCEPT ![m] = [conv |-> c, role |-> role, content |-> content,
                       tokens_used |-> NoTokens, turn |-> n]]

QuotaDeniedNever(res) == FALSE

\* `if not quota_result.allowed` in send_message
QuotaDenied(res) == ~res.allowed

QuotaBlocksOnError(q_raises, res) == q_raises \/ QuotaDenied(res)

\* the try/except around the quota check: an exception of check_quota is
\* logged and the turn goes on
QuotaBlocks(q_raises, res) == ~q_raises /\ QuotaDenied(res)

\* the rows of the request's session that a failed flush takes with it
Rollback(ms, n) == [m \in MsgIds |-> IF ms[m].turn = n THEN NoMsg ELSE ms[m]]
Unlog(u, t) ==
    [daily_tokens_used |-> u.daily_tokens_used - t.logged_tokens,
     daily_cost_used |-> u.daily_cost_used - t.logged_cost,
     monthly_tokens_used |-> u.monthly_tokens_used - t.logged_tokens,
     monthly_cost_used |-> u.monthly_cost_used - t.logged_cost]

Emit(t, e) == [t EXCEPT !.events = Append(@, e)]
Close(t) == [t EXCEPT !.pc = "closed"]

\* send_message from its first line to the first read of the upstream:
\* load, quota admission, user message, prompt, assistant placeholder
TurnAdmit(q_raises) ==
    /\ turn.pc = "load"
    /\ LET c == turn.conv
           res == CheckQuota(NoUser, NoQuota, quota, usage)
           t1 == IF q_raises THEN [turn EXCEPT !.qstate = "raised"]
                 ELSE [turn EXCEPT !.qstate = "returned", !.qres = res,
                                   !.qusage = usage, !.qquota = quota]
           um == 2 * turn.n - 1
           am == 2 * turn.n
       IN  IF convs[c] = NoConv
           THEN /\ turn' = Close(Emit(turn, Ev("error")))
                /\ UNCHANGED msgs
           ELSE IF QuotaBlocks(q_raises, res)
           THEN /\ turn' = Close(Emit(t1, QuotaErr))
                /\ UNCHANGED msgs
           ELSE /\ msgs' = AddMessage(AddMessage(msgs, um, c, "user", 1, turn.n),
                                      am, c, "assistant", 0, turn.n)
                /\ turn' = [Emit(Emit(t1, [Ev("user_message") EXCEPT !.message_id = um]),
                                 [Ev("assistant_message_start") EXCEPT !.message_id = am])
                              EXCEPT !.pc = "connect", !.um = um, !.am = am]
    /\ UNCHANGED <<convs, usage, quota, resp, nonChat>>

\* stream_chat_completion up to the status line of the upstream response:
\* without a key and on a status other than 200 it raises OpenRouterError
\* (s_raised), which send_message's `except Exception` turns into an error
\* event; a failed connection makes it yield an error chunk (s_error)
UpstreamConnect(o) ==
    /\ turn.pc = "connect"
    /\ turn' = CASE o \in {"no_key", "http_error"} ->
                       [Close(Emit(turn, Ev("error"))) EXCEPT !.s_raised = TRUE]
                 [] o = "conn_fail" ->
                       [Emit(turn, Ev("error")) EXCEPT !.pc = "post", !.s_error = TRUE]
                 [] o = "ok" -> [turn EXCEPT !.pc = "stream"]
    /\ UNCHANGED <<convs, msgs, usage, quota, resp, nonChat>>

TokensUsed(t) ==
    [prompt_tokens |-> t.prompt_tokens, completion_tokens |-> t.completion_tokens,
     total_tokens |-> t.prompt_tokens + t.completion_tokens]

\* Python truthiness of the tokens_used dict
DictTruthy(d) == d /= NoTokens

\* UsageLogService.log_usage seen through get_current_usage's sums
LogUsage(u, tokens, cost) ==
    [daily_tokens_used |-> u.daily_tokens_used + tokens,
     daily_cost_used |-> u.daily_cost_used + cost,
     monthly_tokens_used |-> u.monthly_tokens_used + tokens,
     monthly_cost_used |-> u.monthly_cost_used + cost]

\* one delta with content
LineContent ==
    /\ turn.pc = "stream"
    /\ turn.full < MaxDeltas
    /\ turn' = [Emit(turn, Ev("content")) EXCEPT !.full = @ + 1]
    /\ UNCHANGED <<convs, msgs, usage, quota, resp, nonChat>>

\* one line carrying a usage object
LineUsage(p, c) ==
    /\ turn.pc = "stream"
    /\ turn' = [turn EXCEPT !.prompt_tokens = p, !.completion_tokens = c,
                            !.usage_seen = TRUE]
    /\ UNCHANGED <<convs, msgs, usage, quota, resp, nonChat>>

\* the [DONE] line: the streamer yields done and stops; send_message logs the
\* usage and yields its own done
LineDone(cost, db_ok) ==
    /\ turn.pc = "stream"
    /\ LET tu == TokensUsed(turn)
           t1 == [turn EXCEPT !.tokens_used = tu]
       IN  IF DictTruthy(tu) /\ ~db_ok
           THEN /\ turn' = Close(Emit(t1, Ev("error")))
                /\ msgs' = Rollback(msgs, turn.n)
                /\ UNCHANGED usage
           ELSE /\ usage' = IF DictTruthy(tu) THEN LogUsage(usage, tu.total_tokens, cost)
                            ELSE usage
                /\ turn' = [Emit(t1, [Ev("done") EXCEPT !.message_id = turn.am,
                                                        !.tokens_used = tu])
                              EXCEPT !.pc = "post",
                                     !.logged_tokens = IF DictTruthy(tu) THEN tu.total_tokens ELSE 0,
                                     !.logged_cost = IF DictTruthy(tu) THEN cost ELSE 0,
                                     !.log_rows = IF DictTruthy(tu) THEN @ + 1 ELSE @]
                /\ UNCHANGED msgs
    /\ UNCHANGED <<convs, quota, resp, nonChat>>

\* the upstream closes the stream without a [DONE] line
LineEof ==
    /\ turn.pc = "stream"
    /\ turn' = [turn EXCEPT !.pc = "post"]
    /\ UNCHANGED <<convs, msgs, usage, quota, resp, nonChat>>

\* the connection breaks while lines are read: the streamer yields an error
\* chunk, which send_message forwards
LineFail ==
    /\ turn.pc = "stream"
    /\ turn' = [Emit(turn, Ev("error")) EXCEPT !.pc = "post", !.s_error = TRUE]
    /\ UNCHANGED <<convs, msgs, usage, quota, resp, nonChat>>

\* content[:50].strip() plus "..." as the title of an untitled conversation
AutoTitle(cv, full) ==
    IF cv.title = "New Conversation" /\ full > 0 THEN [cv EXCEPT !.title = "auto"] ELSE cv

\* send_message after the loop over the upstream chunks
PostStream(db_ok) ==
    /\ turn.pc = "post"
    /\ IF db_ok
       THEN /\ msgs' = [msgs EXCEPT ![turn.am].content = turn.full,
                                    ![turn.am].tokens_used =
                                        IF DictTruthy(turn.tokens_used)
                                        THEN turn.tokens_used ELSE @]
            /\ convs' = [convs EXCEPT ![turn.conv] = AutoTitle(@, turn.full)]
            /\ turn' = Close(turn)
            /\ UNCHANGED usage
       ELSE /\ msgs' = Rollback(msgs, turn.n)
            /\ usage' = Unlog(usage, turn)
            /\ turn' = [Close(Emit(turn, Ev("error"))) EXCEPT !.log_rows = 0]
            /\ UNCHANGED convs
    /\ UNCHANGED <<quota, resp, nonChat>>

\* The client disconnects while the response is streamed: the generator is
\* cancelled at the yield it is suspended in, and neither `except Exception`
\* nor the code after the loop runs.  kept says whether the request's session
\* is still committed (the rows flushed so far stay) or is closed without a
\* commit (they are rolled back).
ClientDisconnect(kept) ==
    /\ turn.pc \in {"stream", "post"}
    /\ IF kept
       THEN /\ turn' = [turn EXCEPT !.pc = "cancelled"]
            /\ UNCHANGED <<msgs, usage>>
       ELSE /\ turn' = [turn EXCEPT !.pc = "cancelled", !.log_rows = 0]
            /\ msgs' = Rollback(msgs, turn.n)
            /\ usage' = Unlog(usage, turn)
    /\ UNCHANGED <<convs, quota, resp, nonChat>>

\* QuotaService.set_user_quota setting the daily cost limit of user u: the
\* row is created if the user has none, an argument of None leaves the
\* column as it is
SetUserQuota(u, dc) ==
    /\ LET old == IF uquota[u] = NoQuota THEN QuotaRow(Null, Null, Null, Null)
                  ELSE uquota[u]
       IN  uquota' = [uquota EXCEPT ![u] =
                         [old EXCEPT !.daily_cost_limit_usd = IF dc /= Null THEN dc ELSE @]]
    /\ uquota' /= uquota
    /\ UNCHANGED <<ingestVars, chatVars, quotaVars, peer, keyVars, utilVars>>

\* midnight UTC; first_of_month: the month changes with the day
NewDay(first_of_month) ==
    /\ TurnQuiet
    /\ usage' = IF first_of_month THEN ZeroUsage
                ELSE [usage EXCEPT !.daily_tokens_used = 0, !.daily_cost_used = 0]
    /\ usage' /= usage
    /\ UNCHANGED <<convs, msgs, quota, turn, resp, nonChat>>

\* the legacy admin's chat turns in one conversation, quota updates and days;
\* a usage object reports no tokens or MaxTokens of them per field, a priced
\* completion costs nothing or MaxCost
ChatNext ==
    \/ CreateConversation(AdminToken, 1)
    \/ SendMessage(AdminToken, 1)
    \/ \E dc \in Limits : UpdateGlobalQuota(AdminToken, dc)
    \/ \E q_raises \in BOOLEAN : TurnAdmit(q_raises)
    \/ \E o \in {"no_key", "http_error", "conn_fail", "ok"} : UpstreamConnect(o)
    \/ LineContent
    \/ \E p \in {0, MaxTokens}, c \in {0, MaxTokens} : LineUsage(p, c)
    \/ \E cost \in {0, MaxCost}, db_ok \in BOOLEAN : LineDone(cost, db_ok)
    \/ LineEof
    \/ LineFail
    \/ \E db_ok \in BOOLEAN : PostStream(db_ok)
    \/ \E first_of_month \in BOOLEAN : NewDay(first_of_month)

\* the legacy admin's chat turns with clients that may disconnect
StreamNext ==
    \/ CreateConversation(AdminToken, 1)
    \/ SendMessage(AdminToken, 1)
    \/ \E q_raises \in BOOLEAN : TurnAdmit(q_raises)
    \/ \E o \in {"no_key", "http_error", "conn_fail", "ok"} : UpstreamConnect(o)
    \/ LineContent
    \/ \E p \in {0, MaxTokens}, c \in {0, MaxTokens} : LineUsage(p, c)
    \/ \E cost \in {0, MaxCost}, db_ok \in BOOLEAN : LineDone(cost, db_ok)
    \/ LineEof
    \/ LineFail
    \/ \E db_ok \in BOOLEAN : PostStream(db_ok)
    \/ \E kept \in BOOLEAN : ClientDisconnect(kept)

\* the conversation endpoints, with turns that end at the upstream's refusal
AccessNext ==
    \/ \E tok \in Tokens, c \in ConvIds : CreateConversation(tok, c)
    \/ \E tok \in Tokens, c \in ConvIds : GetConversation(tok, c)
    \/ \E tok \in Tokens, c \in ConvIds : UpdateConversation(tok, c)
    \/ \E tok \in Tokens, c \in ConvIds : DeleteConversation(tok, c)
    \/ \E tok \in Tokens, c \in ConvIds : ExportConversation(tok, c)
    \/ \E tok \in Tokens, c \in ConvIds : SendMessage(tok, c)
    \/ \E tok \in Tokens, c \in ConvIds, m \in MsgIds : EditMessage(tok, c, m, 2)
    \/ TurnAdmit(FALSE)
    \/ \E o \in {"no_key", "http_error"} : UpstreamConnect(o)
    \/ \E u \in Users : SetUserQuota(u, MaxLimit)

\* requests with and without the CSRF header, by every caller, against the
\* endpoints of each role gate
GateNext ==
    \/ \E tok \in Tokens, c \in ConvIds : CreateConversation(tok, c)
    \/ \E tok \in Tokens, c \in ConvIds : UpdateConversation(tok, c)
    \/ \E tok \in Tokens, c \in ConvIds : DeleteConversation(tok, c)
    \/ \E tok \in Tokens, c \in ConvIds : SendMessage(tok, c)
    \/ \E tok \in Tokens, c \in ConvIds, m \in MsgIds : EditMessage(tok, c, m, 2)
    \/ TurnAdmit(FALSE)
    \/ \E o \in {"no_key", "http_error"} : UpstreamConnect(o)
    \/ \E tok \in Tokens, csrf \in CsrfHeaders : PatchGlobalQuota(tok, csrf, MaxLimit)
    \/ \E tok \in Tokens : GetGlobalQuota(tok)
    \/ \E tok \in Tokens : ListUsers(tok)
    \/ \E tok \in Tokens : ListConversations(tok)

(***************************************************************************)
(* Part IV - provider API keys.  Each admin request runs APIKeyService in  *)
(* its own session: it reads the committed rows, changes its objects, and  *)
(* its INSERTs, UPDATEs and DELETEs reach the table when the endpoint      *)
(* commits.  Requests of the key endpoints can be in flight together.      *)
(***************************************************************************)
KeyIds == 1..MaxKeys
\* the key requests followed at a time
ReqIds == {1, 2}
Providers == {"openrouter", "openai"}
KeyCols == {"is_active", "is_default"}
NoKey == [provider |-> "absent", is_active |-> FALSE, is_default |-> FALSE]
\* APIKey(...) in create_key and rotate_key
NewKey(p, d) == [provider |-> p, is_active |-> TRUE, is_default |-> d]

\* a row object of a session: loaded, added or deleted, and the columns set
KObj(kind, obj, dirty) == [kind |-> kind, obj |-> obj, dirty |-> dirty]
KNone == KObj("none", NoKey, {})
\* a request that is not running holds no objects
IdleReq == [pc |-> "idle", w |-> <<>>]

\* the rows as a session's SELECTs return them
KeyLoad(ks) == [k \in KeyIds |-> KObj("load", ks[k], {})]

SetKeyCol(s, k, c, v) ==
    [s EXCEPT ![k] = KObj(@.kind, [@.obj EXCEPT ![c] = v],
                          IF @.obj[c] /= v THEN @.dirty \cup {c} ELSE @.dirty)]

RECURSIVE UnsetAll(_, _)
UnsetAll(s, K) ==
    IF K = {} THEN s
    ELSE LET k == CHOOSE x \in K : TRUE
         IN  UnsetAll(SetKeyCol(s, k, "is_default", FALSE), K \ {k})

\* APIKeyService._unset_defaults
UnsetDefaults(s, p) ==
    UnsetAll(s, {k \in KeyIds : /\ s[k].kind \in {"load", "insert"}
                                /\ s[k].obj.provider = p
                                /\ s[k].obj.is_default})

\* ids no row and no pending INSERT has taken
FreeKeyIds ==
    {k \in KeyIds : /\ keys[k] = NoKey
                    /\ \A r \in ReqIds : kreq[r].pc = "idle" \/ kreq[r].w[k].kind /= "insert"}
NewKeyId == CHOOSE k \in FreeKeyIds : \A j \in FreeKeyIds : k <= j

\* what the session still has to write: untouched rows are dropped, an
\* updated row keeps the columns it writes
KeyWrites(s) ==
    [k \in KeyIds |->
        IF s[k].kind \in {"insert", "delete"} THEN KObj(s[k].kind, s[k].obj, {})
        ELSE IF s[k].dirty = {} THEN KNone
        ELSE KObj("update",
                  [NoKey EXCEPT !.is_active = IF "is_active" \in s[k].dirty
                                              THEN s[k].obj.is_active ELSE @,
                                !.is_default = IF "is_default" \in s[k].dirty
                                               THEN s[k].obj.is_default ELSE @],
                  s[k].dirty)]

KeyBegin(r, s) ==
    /\ kreq[r].pc = "idle"
    /\ kreq' = [kreq EXCEPT ![r] = [pc |-> "flushed", w |-> KeyWrites(s)]]
    /\ UNCHANGED <<keys, nonKeys>>

\* POST /admin/api-keys: APIKeyService.create_key
CreateKey(r, p, is_default) ==
    /\ FreeKeyIds /= {}
    /\ LET s0 == KeyLoad(keys)
           s1 == IF is_default THEN UnsetDefaults(s0, p) ELSE s0
       IN  KeyBegin(r, [s1 EXCEPT ![NewKeyId] = KObj("insert", NewKey(p, is_default), {})])

\* PATCH /admin/api-keys/{id}: APIKeyService.update_key with is_active given
UpdateKey(r, k, is_active) ==
    /\ keys[k] /= NoKey
    /\ KeyBegin(r, SetKeyCol(KeyLoad(keys), k, "is_active", is_active))

\* DELETE /admin/api-keys/{id}: APIKeyService.delete_key
DeleteKey(r, k) ==
    /\ keys[k] /= NoKey
    /\ KeyBegin(r, [KeyLoad(keys) EXCEPT ![k] = KObj("delete", keys[k], {})])

\* POST /admin/api-keys/{id}/set-default: APIKeyService.set_default
SetDefault(r, k) ==
    /\ keys[k] /= NoKey
    /\ KeyBegin(r, SetKeyCol(UnsetDefaults(KeyLoad(keys), keys[k].provider),
                             k, "is_default", TRUE))

\* POST /admin/api-keys/{id}/rotate: APIKeyService.rotate_key
RotateKey(r, k) ==
    /\ keys[k] /= NoKey
    /\ FreeKeyIds /= {}
    /\ LET s0 == KeyLoad(keys)
           s1 == [s0 EXCEPT ![NewKeyId] =
                      KObj("insert", NewKey(keys[k].provider, keys[k].is_default), {})]
       IN  KeyBegin(r, SetKeyCol(SetKeyCol(s1, k, "is_active", FALSE),
                                 k, "is_default", FALSE))

\* the UPDATE or DELETE of a row another request has deleted matches no row
KeyStale(w) ==
    \E k \in KeyIds : w[k].kind \in {"update", "delete"} /\ keys[k] = NoKey

\* `await db.commit()` of a key endpoint; a stale write fails the request and
\* get_db rolls the session back
KeyCommit(r) ==
    /\ kreq[r].pc = "flushed"
    /\ LET w == kreq[r].w
       IN  keys' = IF KeyStale(w) THEN keys
                   ELSE [k \in KeyIds |->
                           CASE w[k].kind = "insert" -> w[k].obj
                             [] w[k].kind = "delete" -> NoKey
                             [] w[k].kind = "update" ->
                                  [keys[k] EXCEPT
                                     !.is_active = IF "is_active" \in w[k].dirty
                                                   THEN w[k].obj.is_active ELSE @,
                                     !.is_default = IF "is_default" \in w[k].dirty
                                                    THEN w[k].obj.is_default ELSE @]
                             [] OTHER -> keys[k]]
    /\ kreq' = [kreq EXCEPT ![r] = IdleReq]
    /\ UNCHANGED nonKeys

KeyNext ==
    \/ \E r \in ReqIds, p \in Providers, d \in BOOLEAN : CreateKey(r, p, d)
    \/ \E r \in ReqIds, k \in KeyIds, a \in BOOLEAN : UpdateKey(r, k, a)
    \/ \E r \in ReqIds, k \in KeyIds : DeleteKey(r, k)
    \/ \E r \in ReqIds, k \in KeyIds : SetDefault(r, k)
    \/ \E r \in ReqIds, k \in KeyIds : RotateKey(r, k)
    \/ \E r \in ReqIds : KeyCommit(r)

QuotaNext == QuotaCheck

(***************************************************************************)
(* Part V - the text chunker.  A text is taken by the number of tokens its *)
(* whitespace-normalised form encodes to (0 for an empty or blank text);   *)
(* a chunk by its index and token_count.                                   *)
(***************************************************************************)
Max(a, b) == IF a > b THEN a ELSE b
\* a list longer than any text of MaxText tokens has windows: appending to
\* it stands for the list growing until memory runs out
MaxList == MaxText + 2
TextChunk(index, token_count) == [index |-> index, token_count |-> token_count]
IdleChunker ==
    [pc |-> "idle", total |-> 0, size |-> 1, overlap |-> 0,
     start |-> 0, index |-> 0, chunks |-> <<>>]

\* a slice bound of a Python list of length n
SliceIndex(i, n) == IF i < 0 THEN Max(0, n + i) ELSE Min(i, n)
\* len(tokens[start:end])
SliceLen(start, end, n) == Max(0, SliceIndex(end, n) - SliceIndex(start, n))

\* TextChunker(chunk_size, chunk_overlap).chunk_text(text) up to the loop
ChunkText(total, size, overlap) ==
    /\ ck.pc \in {"idle", "returned"}
    /\ ck' = IF total = 0
             THEN [IdleChunker EXCEPT !.pc = "returned", !.size = size,
                                      !.overlap = overlap]
             ELSE IF total <= size
             THEN [IdleChunker EXCEPT !.pc = "returned", !.total = total,
                                      !.size = size, !.overlap = overlap,
                                      !.chunks = <<TextChunk(0, total)>>]
             ELSE [IdleChunker EXCEPT !.pc = "loop", !.total = total,
                                      !.size = size, !.overlap = overlap]
    /\ UNCHANGED <<nonUtil, batch>>

\* one pass of `while start < total_tokens`
ChunkLoop ==
    /\ ck.pc = "loop"
    /\ LET end == Min(ck.start + ck.size, ck.total)
           start == end - ck.overlap
       IN  ck' = IF ~(ck.start < ck.total)
                 THEN [ck EXCEPT !.pc = "returned"]
                 ELSE IF Len(ck.chunks) >= MaxList
                 THEN [ck EXCEPT !.pc = "memory_error"]
                 ELSE [ck EXCEPT
                         !.chunks = Append(@, TextChunk(ck.index,
                                                 SliceLen(ck.start, end, ck.total))),
                         !.start = start,
                         !.index = @ + 1,
                         !.pc = IF start >= ck.total THEN "returned" ELSE "loop"]
    /\ UNCHANGED <<nonUtil, batch>>

ChunkNext ==
    \/ \E total \in 0..MaxText, size \in 1..MaxSize, overlap \in 0..(MaxSize + 1) :
          ChunkText(total, size, overlap)
    \/ ChunkLoop


(***************************************************************************)
(* Part VI - the reaper's cycle over several files.  Each file has its     *)
(* row and at most one asyncio task: the upload's background task or the   *)
(* task the reaper created for it.  An attempt lasts less than a time      *)
(* unit, so the clock advances while no task is running.                   *)
(***************************************************************************)
BatchIds == 1..MaxBatch
\* cycle: the files the creating reaper cycle dispatched, {} for an upload
NoJob == [pc |-> "none", s |-> Sess(NoFile, {}), cycle |-> {}]
IdleBatch ==
    [pc |-> "idle",
     files |-> [f \in BatchIds |-> NoFile],
     w |-> [f \in BatchIds |-> Sess(NoFile, {})],
     jobs |-> [f \in BatchIds |-> NoJob]]

\* a task that has flushed its first UPDATE holds the row lock
JobLocked(f) == batch.jobs[f].pc \in {"embedding", "committing"}

\* POST /assistants/{id}/files: the row and the background task
BatchUpload(f) ==
    /\ batch.files[f] = NoFile
    /\ batch' = [batch EXCEPT !.files[f] = NewFile,
                              !.jobs[f] = [NoJob EXCEPT !.pc = "created"]]
    /\ UNCHANGED <<nonUtil, ck>>

\* process_file_background / IngestionReaper._process_file: the task runs
\* process_file to its first long await (TaskBegin for one file of several)
ProcessFileBegin(f, extract_ok) ==
    LET s2 == UpdateFileStatus(RegisterAttempt(Sess(batch.files[f], {})),
                               "indexing", Null, "null")
    IN  /\ batch.jobs[f].pc = "created"
        /\ batch' = [batch EXCEPT
                        !.jobs[f].pc = IF extract_ok THEN "embedding" ELSE "committing",
                        !.jobs[f].s = IF extract_ok THEN s2
                                      ELSE MarkRetryOrFailed(s2, "err")]
        /\ UNCHANGED <<nonUtil, ck>>

\* embedding and the vector store: ok, or an exception
ProcessFileEmbed(f, ok) ==
    /\ batch.jobs[f].pc = "embedding"
    /\ batch' = [batch EXCEPT
                    !.jobs[f].pc = "committing",
                    !.jobs[f].s = IF ok THEN MarkReady(@, 1)
                                  ELSE MarkRetryOrFailed(@, "err")]
    /\ UNCHANGED <<nonUtil, ck>>

\* the task's session commits and the task ends
ProcessFileCommit(f) ==
    /\ batch.jobs[f].pc = "committing"
    /\ batch' = [batch EXCEPT !.files[f] = Overlay(@, batch.jobs[f].s),
                              !.jobs[f] = NoJob]
    /\ UNCHANGED <<nonUtil, ck>>

\* IngestionReaper.run, one cycle up to its commit: _reap_stuck_files, then
\* _retry_pending_files with asyncio.create_task(self._process_file(file.id))
\* for every due file; the tasks run once the cycle awaits its commit
ReaperCycle ==
    LET stuck == {f \in BatchIds : IsStuck(batch.files[f])}
        due == {f \in BatchIds : IsDue(batch.files[f])}
    IN  /\ batch.pc = "idle"
        /\ stuck \cup due /= {}
        /\ \A f \in due : batch.jobs[f] = NoJob
        /\ batch' = [batch EXCEPT
              !.pc = "committing",
              !.w = [f \in BatchIds |->
                       IF f \in stuck THEN Pending(ReapFile(Sess(batch.files[f], {})))
                       ELSE IF f \in due
                            THEN Pending(DispatchFile(Sess(batch.files[f], {})))
                       ELSE Sess(NoFile, {})],
              !.jobs = [f \in BatchIds |->
                          IF f \in due THEN [NoJob EXCEPT !.pc = "created", !.cycle = due]
                          ELSE batch.jobs[f]]]
        /\ UNCHANGED <<nonUtil, ck>>

\* the cycle's commit: its UPDATEs wait for the row locks
ReaperCycleCommit ==
    /\ batch.pc = "committing"
    /\ \A f \in BatchIds : batch.w[f].dirty /= {} => ~JobLocked(f)
    /\ batch' = [batch EXCEPT
          !.pc = "idle",
          !.files = [f \in BatchIds |->
                       IF batch.w[f].dirty /= {} THEN Overlay(batch.files[f], batch.w[f])
                       ELSE batch.files[f]],
          !.w = [f \in BatchIds |-> Sess(NoFile, {})]]
    /\ UNCHANGED <<nonUtil, ck>>

\* the clock advances by one time unit
BatchTick ==
    /\ batch.pc = "idle"
    /\ \A f \in BatchIds : batch.jobs[f] = NoJob
    /\ \E f \in BatchIds : AgeRow(batch.files[f]) /= batch.files[f]
    /\ batch' = [batch EXCEPT !.files = [f \in BatchIds |-> AgeRow(batch.files[f])]]
    /\ UNCHANGED <<nonUtil, ck>>

BatchNext ==
    \/ \E f \in BatchIds : BatchUpload(f)
    \/ \E f \in BatchIds, ok \in BOOLEAN : ProcessFileBegin(f, ok)
    \/ \E f \in BatchIds, ok \in BOOLEAN : ProcessFileEmbed(f, ok)
    \/ \E f \in BatchIds : ProcessFileCommit(f)
    \/ ReaperCycle
    \/ ReaperCycleCommit
    \/ BatchTick

InitAdmin ==
    /\ uquota = [u \in Users |-> NoQuota]
    /\ peer = IdleReaper
    /\ keys = [k \in KeyIds |-> NoKey]
    /\ kreq = [r \in ReqIds |-> IdleReq]
    /\ ck = IdleChunker
    /\ batch = IdleBatch

Init == InitIngest /\ InitChat /\ IdleQuota /\ InitAdmin

Next == NextIngest

\* ingestion: uploads, workers, reaper, reprocess
Spec == Init /\ [][Next]_vars

\* conversations and chat turns
ChatSpec == Init /\ [][ChatNext]_vars

QuotaInit == InitIngest /\ InitChat /\ InitQuota /\ InitAdmin

\* uploads, workers and the reaper, with no reprocess request
ReclaimNext ==
    \/ \E f \in FileIds, n \in 0..MaxChunks : Upload(f, n)
    \/ \E t \in TaskIds, ok \in BOOLEAN : TaskBegin(t, ok)
    \/ \E t \in TaskIds, m \in {Null} \cup 0..MaxChunks, dup \in {"raise", "ignore"} :
          TaskEmbed(t, m, dup)
    \/ \E t \in TaskIds : TaskCommit(t)
    \/ \E t \in TaskIds : Crash(t)
    \/ ReaperRead
    \/ ReaperCommit
    \/ Tick

\* uploads, workers and the reapers of two server processes
ParNext ==
    \/ \E f \in FileIds, n \in 0..MaxChunks : Upload(f, n)
    \/ \E t \in TaskIds, ok \in BOOLEAN : TaskBegin(t, ok)
    \/ \E t \in TaskIds, m \in {Null} \cup 0..MaxChunks, dup \in {"raise", "ignore"} :
          TaskEmbed(t, m, dup)
    \/ \E t \in TaskIds : TaskCommit(t)
    \/ \E t \in TaskIds : Crash(t)
    \/ ReaperRead
    \/ ReaperCommit
    \/ PeerRead
    \/ PeerCommit
    \/ PeerTick

ParSpec == Init /\ [][ParNext]_vars

\* The clock runs, and the reaper loop wakes up every REAPER_INTERVAL_SECONDS
\* and commits its cycle.
Fairness ==
    /\ WF_vars(Tick)
    /\ WF_vars(ReaperRead)
    /\ WF_vars(ReaperCommit)

FairSpec == Init /\ [][ReclaimNext]_vars /\ Fairness

\* the same steps with no assumption on scheduling
ReclaimSpec == Init /\ [][ReclaimNext]_vars

\* chat turns whose client may go away
StreamSpec == Init /\ [][StreamNext]_vars

\* the admin's requests to the provider-key endpoints
KeySpec == Init /\ [][KeyNext]_vars

\* requests of every caller against the conversation endpoints
AccessSpec == Init /\ [][AccessNext]_vars

\* the role gates and the CSRF check
GateSpec == Init /\ [][GateNext]_vars

\* ingestion with attempts that overlap on a file
FlightSpec == Init /\ [][FlightNext]_vars

\* chunk_text over all bounded texts and chunker settings
ChunkSpec == Init /\ [][ChunkNext]_vars

\* the reaper's cycles over several files
BatchSpec == Init /\ [][BatchNext]_vars

\* check_quota over all bounded quota rows and usage sums
QuotaSpec == QuotaInit /\ [][QuotaNext]_vars
(***************************************************************************)
(* Properties of the ingestion pipeline.                                   *)
(***************************************************************************)
Present(f) == files[f] /= NoFile

\* C1: every file whose status is failed has attempt_count >= max_attempts
\* and a non-null error_message.
C1_FailedHasAttemptsAndError ==
    \A f \in FileIds :
        (Present(f) /\ files[f].status = "failed")
            => /\ files[f].attempt_count >= MaxAttempts
               /\ files[f].error_message /= "null"

\* C2: for every file whose status is ready, the vector store holds exactly
\* chunk_count entries of that file, with chunk indices 0..chunk_count-1.
C2_ReadyChunksMatchStore ==
    \A f \in FileIds :
        (Present(f) /\ files[f].status = "ready")
            => FileChunks(f) = ChunkIds(f, files[f].chunk_count)

\* a file left in processing/indexing by a worker that is gone
Orphaned(f) ==
    /\ Present(f)
    /\ files[f].status \in {"processing", "indexing"}
    /\ \A t \in TaskIds : tasks[t].fid /= f

Reclaimed(f) ==
    \/ files[f].status = "failed"
    \/ files[f].status = "pending" /\ files[f].retry /= Null

Stale(r) ==
    /\ r /= NoFile
    /\ r.status \in {"processing", "indexing"}
    /\ r.started /= Null
    /\ r.started * TimeUnitMinutes > STUCK_THRESHOLD_MINUTES

\* C4: a reaper tick moves every file that is in processing/indexing with
\* processing_started_at older than now - 15 minutes to pending with
\* next_retry_at set, or to failed.
C4_TickReclaimsEveryStaleFile ==
    [][/\ (reaper.pc = "idle" /\ reaper'.pc = "committing")
            => \A f \in FileIds :
                   Stale(files[f]) => "status" \in reaper'.w[f].dirty
       /\ (reaper.pc = "committing" /\ reaper'.pc = "idle")
            => \A f \in FileIds :
                   "attempt_count" \in reaper.w[f].dirty
                       => \/ /\ files'[f].status = "failed"
                             /\ files'[f].attempt_count >= MaxAttempts
                          \/ /\ files'[f].status = "pending"
                             /\ files'[f].retry /= Null]_vars

\* a file the reaper has given up on after its last timed-out attempt
C4_Witness ==
    \E f \in FileIds :
        /\ Present(f)
        /\ files[f].status = "failed"
        /\ files[f].last_error = "timeout"
(***************************************************************************)
(* Properties of the chat turn, the conversation endpoints and the quota   *)
(* admission.                                                              *)
(***************************************************************************)
Terminal(e) == e.type \in {"done", "error"}

\* C5: every chat turn whose event stream has started ends with a terminal
\* event (done or error), whatever the upstream provider does.
C5_StreamEndsWithTerminalEvent ==
    turn.pc = "closed"
        => /\ Len(turn.events) > 0
           /\ Terminal(turn.events[Len(turn.events)])

\* C6: in the event stream of a chat turn no event follows a done event or
\* an error event.
C6_NoEventAfterTerminal ==
    \A i \in 1..Len(turn.events) :
        Terminal(turn.events[i]) => i = Len(turn.events)

TurnDenied == turn.qstate = "returned" /\ ~turn.qres.allowed

\* C7: when quota admission denies a chat turn, the turn's event stream is
\* exactly one error event with quota_exceeded = true, and the turn inserts
\* no message row.
C7_DenialEmitsOneErrorAndNoMessage ==
    TurnDenied
        => /\ turn.events = <<QuotaErr>>
           /\ turn.pc = "closed"
           /\ \A m \in MsgIds : msgs[m].turn /= turn.n

\* a second turn denied after the first one was admitted
C7_Witness ==
    /\ TurnDenied
    /\ turn.pc = "closed"
    /\ turn.n = 2
    /\ \E m \in MsgIds : msgs[m] /= NoMsg

\* a caller holding a user-login token whose role is not admin
NonAdminCaller(tok) == tok.valid /\ tok.sub \in Users /\ tok.role /= "admin"

ConvRequest(tok, c) ==
    \/ GetConversation(tok, c)
    \/ UpdateConversation(tok, c)
    \/ DeleteConversation(tok, c)
    \/ SendMessage(tok, c)
    \/ \E m \in MsgIds : EditMessage(tok, c, m, 2)
    \/ ExportConversation(tok, c)

\* C8: for get, update, delete, send message, edit message and export, a
\* caller who is not an admin and whose user id differs from
\* conversation.user_id gets the not-found answer of a conversation that
\* does not exist, and the conversation is neither returned nor modified.
C8_NonOwnerGetsNotFound ==
    [][\A tok \in Tokens, c \in ConvIds :
          (/\ NonAdminCaller(tok)
           /\ convs[c] /= NoConv
           /\ convs[c].user_id /= tok.sub
           /\ ConvRequest(tok, c))
              => /\ resp'.code = 404
                 /\ resp'.body = NoBody
                 /\ convs' = convs
                 /\ msgs' = msgs
                 /\ turn' = turn]_vars

\* the limit is configured and the usage of its window has reached it
Reached(limit, used) == limit /= Null /\ used >= limit

\* the first reached limit in the order daily cost, monthly cost, daily
\* tokens, monthly tokens
FirstReached(q, u) ==
    IF q = NoQuota THEN "none"
    ELSE IF Reached(q.daily_cost_limit_usd, u.daily_cost_used)
    THEN "Daily cost limit exceeded"
    ELSE IF Reached(q.monthly_cost_limit_usd, u.monthly_cost_used)
    THEN "Monthly cost limit exceeded"
    ELSE IF Reached(q.daily_token_limit, u.daily_tokens_used)
    THEN "Daily token limit exceeded"
    ELSE IF Reached(q.monthly_token_limit, u.monthly_tokens_used)
    THEN "Monthly token limit exceeded"
    ELSE "none"

\* C9: check_quota returns allowed = false exactly when a configured limit of
\* the applicable quota is <= the usage of its window (a limit of 0
\* included), the reason naming the first such limit in the order daily
\* cost, monthly cost, daily tokens, monthly tokens; a null limit never
\* denies.
C9_DeniesExactlyAtFirstReachedLimit ==
    qout /= NoResult
        => LET first == FirstReached(ApplicableQuota(qin.user_id, qin.uq, qin.gq),
                                     qin.usage)
           IN  /\ qout.allowed = (first = "none")
               /\ qout.reason = first

\* C10: under a global daily cost limit L a turn that starts while today's
\* usage-log costs sum to less than L is admitted, and once a completed
\* turn's usage log has brought the sum to L or above the next admission
\* returns allowed = false with the reason naming the daily cost limit.
C10_DailyCostLimitAdmission ==
    (/\ turn.qstate = "returned"
     /\ turn.qquota /= NoQuota
     /\ turn.qquota.daily_cost_limit_usd /= Null)
        => LET L == turn.qquota.daily_cost_limit_usd
               used == turn.qusage.daily_cost_used
           IN  /\ used < L => turn.qres.allowed
               /\ (used >= L /\ used > 0)
                      => /\ ~turn.qres.allowed
                         /\ turn.qres.reason = "Daily cost limit exceeded"

\* a caller holding a session token issued by user login
UserLoginCaller(tok) == tok.valid /\ tok.sub \in Users

\* the conversation exists and the caller owns it or has the admin role
MayAccess(tok, c) ==
    /\ convs[c] /= NoConv
    /\ (tok.role = "admin" \/ convs[c].user_id = tok.sub)

\* C11: when a user-scope quota row exists for the caller of a chat turn, the
\* turn is admitted or denied by check_quota against that user's limits, not
\* against the global limits.
C11_UserQuotaDecidesAdmission ==
    [][/\ \A tok \in Tokens, c \in ConvIds :
             (/\ UserLoginCaller(tok)
              /\ uquota[tok.sub] /= NoQuota
              /\ MayAccess(tok, c)
              /\ SendMessage(tok, c))
                 => /\ turn'.pc = "load"
                    /\ turn'.caller = tok.sub
       /\ (/\ turn.pc = "load"
           /\ turn'.qstate = "returned"
           /\ turn.caller /= NoUser
           /\ uquota[turn.caller] /= NoQuota)
              => turn'.qres = CheckQuota(turn.caller, uquota[turn.caller],
                                         quota, usage)]_vars

\* C12: when a reprocess request for an existing file completes, the file
\* has no chunks in the vector store and is pending with next_retry_at = now,
\* whatever its prior status and attempt_count, and the reaper's next tick
\* selects it for dispatch.
C12_ReprocessResetsAndIsDispatched ==
    [][(reproc /= NoReq /\ reproc' = NoReq)
          => LET f == reproc.fid
             IN  /\ {e \in store' : e[1] = f} = {}
                 /\ files'[f].status = "pending"
                 /\ files'[f].retry = 0
                 /\ IsDue(files'[f])]_vars

\* reaper cycle r has selected f as due and created its processing task
Dispatching(r, f) ==
    /\ r.pc = "committing"
    /\ "status" \in r.w[f].dirty
    /\ r.w[f].obj.status = "processing"

\* C13: with a reaper running in each of several server processes, a due
\* file is not dispatched for processing by two of them in the same tick.
C13_DueFileDispatchedOnce ==
    \A f \in FileIds : ~(Dispatching(reaper, f) /\ Dispatching(peer, f))

\* C14: a file record created by an upload has status pending, and stays
\* pending with attempt_count 0 until a processing attempt for it begins.
C14_UploadedFileIsPending ==
    \A f \in FileIds :
        (/\ Present(f)
         /\ files[f].attempt_count = 0
         /\ \A t \in TaskIds : tasks[t].fid = f => tasks[t].pc = "queued")
            => files[f].status = "pending"

\* C15: when a processing attempt that succeeded commits, the file has
\* status ready, chunk_count equal to the number of chunks stored, and
\* error_message, last_error and next_retry_at all null, also when earlier
\* attempts of the file had failed and recorded an error.
C15_SuccessClearsErrorFields ==
    [][\A t \in TaskIds :
          (/\ tasks[t].pc = "committing"
           /\ tasks[t].s.obj.status = "ready"
           /\ tasks'[t].pc = "idle")
              => LET f == tasks[t].fid
                 IN  /\ files'[f].status = "ready"
                     /\ files'[f].chunk_count = Cardinality({e \in store' : e[1] = f})
                     /\ files'[f].error_message = "null"
                     /\ files'[f].last_error = "null"
                     /\ files'[f].retry = Null]_vars

\* C16: if the client disconnects while content is being streamed, the
\* reserved assistant message row is kept and its stored content is the
\* concatenation of the content chunks received up to the disconnect.
C16_DisconnectKeepsPartialContent ==
    turn.pc = "cancelled"
        => /\ msgs[turn.am] /= NoMsg
           /\ msgs[turn.am].content = turn.full

\* C17: a usage-log row is written for an assistant message only if the
\* turn's upstream stream carried token counts and ended with the done frame,
\* and at most one row is written per assistant message.
C17_UsageRowOnlyWithAccounting ==
    /\ turn.log_rows <= 1
    /\ turn.log_rows > 0
          => /\ turn.usage_seen
             /\ turn.tokens_used /= NoTokens

\* the rows of provider p that are active and default
ActiveDefaults(p) ==
    {k \in KeyIds : /\ keys[k].provider = p
                    /\ keys[k].is_active
                    /\ keys[k].is_default}

\* C18: after any sequence of create, update, set_default, rotate and delete
\* operations on provider keys, every provider has at most one key row with
\* is_active = true and is_default = true.
C18_OneActiveDefaultPerProvider ==
    \A p \in Providers : Cardinality(ActiveDefaults(p)) <= 1

\* C19: a user-login token of an active manager is accepted by the
\* manager-or-above endpoints and rejected with 403 by the admin-only
\* endpoints; a token with role user is rejected by both kinds of endpoint
\* and accepted by the any-role endpoints.
C19_RoleGates ==
    [][\A u \in Users :
          LET tok == UserToken(u, RoleOf(u))
          IN  /\ (RoleOf(u) = "manager" /\ ListUsers(tok)) => resp'.code = 200
              /\ (RoleOf(u) = "manager" /\ GetGlobalQuota(tok)) => resp'.code = 403
              /\ (RoleOf(u) = "user" /\ ListUsers(tok)) => resp'.code \in {401, 403}
              /\ (RoleOf(u) = "user" /\ GetGlobalQuota(tok))
                     => resp'.code \in {401, 403}
              /\ (RoleOf(u) = "user" /\ ListConversations(tok)) => resp'.code = 200]_vars

\* a state-changing request of the conversation and quota endpoints
MutatingRequest(tok, csrf, c) ==
    \/ CreateConversation(tok, c)
    \/ UpdateConversation(tok, c)
    \/ DeleteConversation(tok, c)
    \/ SendMessage(tok, c)
    \/ \E m \in MsgIds : EditMessage(tok, c, m, 2)
    \/ PatchGlobalQuota(tok, csrf, MaxLimit)

\* C20: a state-changing request to an authenticated endpoint that does not
\* carry a valid session token together with the CSRF value bound to that
\* token is rejected and changes nothing.
C20_MutationsNeedTokenAndCsrf ==
    [][\A tok \in Tokens, csrf \in CsrfHeaders, c \in ConvIds :
          (/\ ~(tok.valid /\ csrf = "bound")
           /\ MutatingRequest(tok, csrf, c))
              => /\ resp'.code \in {401, 403}
                 /\ UNCHANGED <<convs, msgs, quota, turn>>]_vars

(***************************************************************************)
(* Properties of the text chunker.                                         *)
(***************************************************************************)
\* C21: with chunk_overlap >= chunk_size, chunk_text terminates and returns
\* a finite list for every text: no call runs its loop until memory is
\* exhausted.
C21_ChunkTextTerminates ==
    (ck.pc /= "idle" /\ ck.overlap >= ck.size) => ck.pc /= "memory_error"

\* C22: for a text of more than chunk_size tokens and 0 < chunk_overlap <
\* chunk_size, chunk_text returns more than one chunk, the i-th chunk has
\* index i, and every chunk has token_count <= chunk_size.
C22_LargeTextChunks ==
    (/\ ck.pc /= "idle"
     /\ ck.total > ck.size
     /\ 0 < ck.overlap /\ ck.overlap < ck.size)
        => /\ ck.pc /= "memory_error"
           /\ ck.pc = "returned" => Len(ck.chunks) > 1
           /\ \A i \in 1..Len(ck.chunks) :
                  /\ ck.chunks[i].index = i - 1
                  /\ ck.chunks[i].token_count <= ck.size

(***************************************************************************)
(* Properties of the streamer and of the chat turn's order of effects.     *)
(***************************************************************************)
\* C23: when the upstream answers with a non-2xx status, the streamer yields
\* an error chunk and raises no exception to its caller.
C23_HttpErrorYieldsError ==
    [][UpstreamConnect("http_error") => (turn'.s_error /\ ~turn'.s_raised)]_vars

(***************************************************************************)
(* Properties of the processing attempts.                                  *)
(***************************************************************************)
\* the attempts that have entered process_file for file f and not finished
InFlight(f) ==
    {t \in TaskIds : /\ tasks[t].fid = f
                     /\ tasks[t].pc \in {"blocked", "embedding", "committing"}}

\* C24: at any time at most one processing attempt is in flight for a file,
\* whichever of the upload task, the reprocess task and the reaper started
\* it.
C24_OneAttemptInFlight ==
    \A f \in FileIds : Cardinality(InFlight(f)) <= 1

\* C25: attempt_count is incremented once at the start of each processing
\* attempt and by nothing else: the committed attempt_count of a file changes
\* only when a processing attempt for that file commits, and then by one.
C25_AttemptCountCountsAttempts ==
    [][\A f \in FileIds :
          (files[f] /= NoFile /\ files'[f].attempt_count /= files[f].attempt_count)
              => /\ \E t \in TaskIds : /\ tasks[t].fid = f
                                        /\ tasks[t].pc = "committing"
                                        /\ tasks'[t].pc = "idle"
                 /\ files'[f].attempt_count = files[f].attempt_count + 1]_vars

\* the task of file f is inside process_file
Processing(f) == batch.jobs[f].pc \in {"embedding", "committing"}

\* C26: the retries one reaper cycle dispatches run one after another: no
\* two files dispatched by the same cycle are being processed at once.
C26_RetriesSerializedWithinTick ==
    \A f, g \in BatchIds :
        (/\ f /= g
         /\ f \in batch.jobs[g].cycle
         /\ batch.jobs[f].cycle = batch.jobs[g].cycle)
            => ~(Processing(f) /\ Processing(g))

\* the backoff table: 5, 15, 45 minutes for attempt 1, 2, 3 and above
BackoffTable(attempt_count) ==
    CASE attempt_count = 1 -> 5
      [] attempt_count = 2 -> 15
      [] OTHER -> 45

\* C28: when a failed attempt or a stale reclaim returns a file to pending,
\* next_retry_at is set to now plus 5, 15 or 45 minutes for attempt_count 1,
\* 2, 3 and above.
C28_BackoffFollowsTable ==
    [][/\ \A t \in TaskIds :
            (/\ tasks[t].pc \in {"queued", "blocked", "embedding"}
             /\ tasks'[t].pc = "committing"
             /\ tasks'[t].s.obj.status = "pending")
                => tasks'[t].s.obj.retry * TimeUnitMinutes
                       = BackoffTable(tasks'[t].s.obj.attempt_count)
       /\ \A f \in FileIds :
            (/\ reaper.pc = "idle" /\ reaper'.pc = "committing"
             /\ IsStuck(files[f])
             /\ reaper'.w[f].obj.status = "pending")
                => reaper'.w[f].obj.retry * TimeUnitMinutes
                       = BackoffTable(reaper'.w[f].obj.attempt_count)]_vars

\* a file waiting 15 minutes after its second attempt failed
C28_Witness ==
    \E f \in FileIds :
        /\ Present(f)
        /\ files[f].status = "pending"
        /\ files[f].attempt_count = 2
        /\ files[f].retry * TimeUnitMinutes = 15

(***************************************************************************)
(* Properties of the end of a chat turn and of message edits.              *)
(***************************************************************************)
\* the event the client received last
LastEvent == turn.events[Len(turn.events)]

\* C27: when the done event of a chat turn has been emitted, the reserved
\* assistant message row already holds the accumulated content and
\* tokens_used, and the usage log of the turn is already written.
C27_DoneAfterWriteBack ==
    (turn.events /= <<>> /\ LastEvent.type = "done")
        => /\ msgs[turn.am].role = "assistant"
           /\ msgs[turn.am].content = turn.full
           /\ msgs[turn.am].tokens_used = turn.tokens_used
           /\ DictTruthy(turn.tokens_used) => turn.log_rows = 1

\* C29: an edit made through conversation c changes only a message that
\* belongs to c.
C29_EditStaysInConversation ==
    [][\A tok \in Tokens, c \in ConvIds, m \in MsgIds :
          (EditMessage(tok, c, m, 2) /\ msgs' /= msgs) => msgs[m].conv = c]_vars

\* C30: a quota check that raises does not block the turn: the user message
\* and the assistant placeholder are persisted, user_message and
\* assistant_message_start are emitted as for an admitted turn, and no
\* quota_exceeded error is produced.
C30_QuotaErrorDoesNotBlock ==
    [][(/\ turn.pc = "load"
        /\ turn'.qstate = "raised"
        /\ convs[turn.conv] /= NoConv)
           => /\ turn'.pc = "connect"
              /\ msgs' = AddMessage(AddMessage(msgs, turn'.um, turn.conv, "user", 1, turn.n),
                                    turn'.am, turn.conv, "assistant", 0, turn.n)
              /\ turn'.events =
                     turn.events \o
                         <<[Ev("user_message") EXCEPT !.message_id = turn'.um],
                           [Ev("assistant_message_start") EXCEPT !.message_id = turn'.am]>>
              /\ \A i \in 1..Len(turn'.events) : ~turn'.events[i].quota_exceeded]_vars

\* a turn admitted although its quota check raised while the limit was
\* reached
C30_Witness ==
    /\ turn.qstate = "raised"
    /\ turn.pc = "connect"
    /\ msgs[turn.um].role = "user"
    /\ msgs[turn.um].conv = turn.conv
    /\ ~CheckQuota(NoUser, NoQuota, quota, usage).allowed
====
